---- MODULE Spec2Model ----
(***************************************************************************)
(* Model of the page builder's canvas/placement engine,                    *)
(* src/frontend/src/App.jsx (the first App component of the file, lines    *)
(* 24-511).  The React state of App is the state of the model; every       *)
(* event handler is one action.  React re-renders between two discrete     *)
(* events, so a handler reads the state left by the previous event, except *)
(* for the values a closure captured earlier (the document listeners that  *)
(* handleComponentMouseDown registers keep the dragOffset and the          *)
(* component of the render in which the press happened).                   *)
(*                                                                         *)
(* The drag-over highlight (isDragOver) is styling only and is left out.   *)
(*                                                                         *)
(* The state space of all handlers with all inputs is too large to         *)
(* enumerate, so several specifications share the actions and give them   *)
(* different inputs: Spec (drops under sessions), SpecBuild (selections    *)
(* stacking up), SpecGen (generation), SpecDrag (repositioning), SpecOrder *)
(* (order of the store), SpecSession (the session under every event),      *)
(* SpecPresses (two presses before a release), SpecPlace (drops on every   *)
(* layout), SpecTemplates (the generator on every type), SpecGeometry (the  *)
(* layout changing under drops and moves) and SpecNavigation (stepping     *)
(* through the sections).                                                  *)
(*                                                                         *)
(* The backend proxy, src/backend/server.js, is modelled next to the App:  *)
(* the variable requests holds the position of the route handler of each   *)
(* request, and SpecBackend lets requests arrive and their awaits settle.  *)
(* The App of lines 24-511 never calls the backend, so the handlers of the *)
(* App leave requests alone and the backend leaves the App's state alone.  *)
(*                                                                         *)
(* Encodings.  A JavaScript value that may be null or '' is a sequence of  *)
(* length 0 (null, '') or 1 (the value).  A text built by concatenation is *)
(* the sequence of its fragments, so '' is << >> and joining is \o.        *)
(***************************************************************************)
EXTENDS Integers, Sequences, FiniteSets, TLC

\* ------------------------------------------------------------------ bounds
\* Most components the store holds in Spec, SpecGen and SpecDrag.
MaxComponents == 2
\* Most components the store holds in SpecBuild.
MaxStack == 3
\* Largest value of the millisecond clock read by Date.now().
MaxClock == 1
\* Most presses that may be registered before a release.
MaxListeners == 1
\* Most presses that may be registered before a release in SpecPresses.
MaxPresses == 2
\* Most requests the backend receives in SpecBackend.
MaxRequests == 2

\* ------------------------------------------------------------------ inputs
Sections == {"header", "body", "footer"}

\* Bounding rectangles the host layout gives the canvas: the rectangle of
\* the first layout, and a narrow one after the window shrinks.
InitialCanvasRect == [left |-> 0, top |-> 0, width |-> 1200, height |-> 800]
CanvasRects ==
    { InitialCanvasRect,
      [left |-> 40, top |-> 30, width |-> 120, height |-> 60] }

\* Pointer coordinates (clientX, clientY) of drop and move events.
Pointers ==
    { [x |-> -100, y |-> -100],
      [x |-> 300,  y |-> 200],
      [x |-> 5000, y |-> 5000] }

\* Pointer coordinates of drop events: the ones above and a point inside
\* the narrow canvas.
DropPointers == Pointers \cup { [x |-> 100, y |-> 60] }

\* Types and labels of the components handed to the generator: every type
\* of the three catalogs, the type DraggableComponent derives from the label
\* "Site Title" (content.toLowerCase()) and the type of a payload without one.
TemplateTypes ==
    { "site-title", "navigation", "logo", "search-bar",
      "heading", "paragraph", "button", "image", "card", "list",
      "copyright", "social-links", "contact-info", "newsletter",
      "site title", "undefined" }
TemplateContents == { "Site Title", "Newsletter" }

\* Offsets of the pointer inside a component at a press
\* (e.clientX - componentRect.left, e.clientY - componentRect.top).
PressOffsets == { [x |-> 0, y |-> 0], [x |-> 30, y |-> 20] }

\* Positions in the catalog list that the selector modal is clicked at.
SelectIndices == {3}

\* Texts carried by the drag transfer of a drop.
ButtonPayload == "{\"id\":\"button\",\"content\":\"Button\",\"type\":\"button\"}"
LogoPayload == "{\"id\":\"logo\",\"content\":\"Logo\",\"type\":\"logo\"}"
NumberPayload == "5"
DropPayloads == {"", "not json", "null", NumberPayload, ButtonPayload}

\* ------------------------------------------------------------------ helpers
Max(a, b) == IF a >= b THEN a ELSE b
Min(a, b) == IF a <= b THEN a ELSE b

\* A property read of a JavaScript value: undefined when the value is not an
\* object carrying the field.
Undefined == "undefined"

\* JSON.parse on the transfer text: either it throws or it returns a value.
\* A value is [kind |-> "null"], [kind |-> "number"] or an object with its fields.
JSONParse(text) ==
    IF text = ButtonPayload
    THEN [throws |-> FALSE,
          value |-> [kind |-> "object", type |-> "button", content |-> "Button"]]
    ELSE IF text = LogoPayload
    THEN [throws |-> FALSE,
          value |-> [kind |-> "object", type |-> "logo", content |-> "Logo"]]
    ELSE IF text = NumberPayload
    THEN [throws |-> FALSE,
          value |-> [kind |-> "number", type |-> Undefined, content |-> Undefined]]
    ELSE IF text = "null"
    THEN [throws |-> FALSE,
          value |-> [kind |-> "null", type |-> Undefined, content |-> Undefined]]
    ELSE [throws |-> TRUE,
          value |-> [kind |-> "none", type |-> Undefined, content |-> Undefined]]

\* data.type / data.content throw a TypeError when data is null.
PropertyReadThrows(value) == value.kind = "null"

\* ------------------------------------------------------------------ catalog
getAvailableComponents(section) ==
    CASE section = "header" ->
           << [id |-> "site-title", content |-> "Site Title", type |-> "site-title"],
              [id |-> "navigation", content |-> "Navigation Menu", type |-> "navigation"],
              [id |-> "logo", content |-> "Logo", type |-> "logo"],
              [id |-> "search-bar", content |-> "Search Bar", type |-> "search-bar"] >>
      [] section = "body" ->
           << [id |-> "heading", content |-> "Heading", type |-> "heading"],
              [id |-> "paragraph", content |-> "Paragraph", type |-> "paragraph"],
              [id |-> "button", content |-> "Button", type |-> "button"],
              [id |-> "image", content |-> "Image", type |-> "image"],
              [id |-> "card", content |-> "Card", type |-> "card"],
              [id |-> "list", content |-> "List", type |-> "list"] >>
      [] section = "footer" ->
           << [id |-> "copyright", content |-> "Copyright", type |-> "copyright"],
              [id |-> "social-links", content |-> "Social Links", type |-> "social-links"],
              [id |-> "contact-info", content |-> "Contact Info", type |-> "contact-info"],
              [id |-> "newsletter", content |-> "Newsletter", type |-> "newsletter"] >>
      [] OTHER -> << >>

\* ------------------------------------------------------------------ backend
\* The proxy of src/backend/server.js: one route, POST /generate-code, whose
\* async handler forwards a prompt to the text-generation service and
\* awaits twice (fetch at line 24, response.json() at line 36).  Node runs
\* the handlers of several requests on one thread, so the steps of two
\* requests interleave at the awaits and nowhere else.
\*
\* A request reaches the handler after bodyParser.json() (line 9) decoded
\* its body; a body that is not JSON is answered by the parser and never
\* reaches the handler.
Requests == 1..MaxRequests

\* req.body.components (line 12): << >> when the body has no such key
\* (undefined), else <<n>> for an array of n placed components.
ComponentLists == { << >>, <<0>>, <<1>> }

\* JSON.stringify(components) inside the template literal (line 17); the
\* literal prints undefined as the word.
StringifyComponents(components) ==
    IF components = << >> THEN Undefined
    ELSE IF components[1] = 0 THEN "[]"
    ELSE "[{\"type\":\"button\"}]"

\* The prompt of lines 14-21.
Prompt(components) ==
    << "You are a web developer. ... Here is the JSON:",
       StringifyComponents(components),
       "Generate a single-file React component ... Just the code." >>

\* Bodies the text-generation service answers with: the generated text
\* under the key response, an error report (which the service sends with a
\* status other than 200; fetch resolves on every status), the JSON text
\* null, and a body that is not JSON.
GeneratedReply == "{\"response\":\"<h1>Title</h1>\"}"
ErrorReply == "{\"error\":\"model 'llama3' not found\"}"
UpstreamBodies == { GeneratedReply, ErrorReply, "null", "<html>" }

\* response.json() (line 36): the decoded body, or a rejection.
ResponseJson(text) ==
    IF text = GeneratedReply
    THEN [throws |-> FALSE,
          value |-> [kind |-> "object", response |-> "<h1>Title</h1>"]]
    ELSE IF text = ErrorReply
    THEN [throws |-> FALSE, value |-> [kind |-> "object", response |-> Undefined]]
    ELSE IF text = "null"
    THEN [throws |-> FALSE, value |-> [kind |-> "null", response |-> Undefined]]
    ELSE [throws |-> TRUE, value |-> [kind |-> "none", response |-> Undefined]]

\* data.response (line 39) throws a TypeError when data is null.
ResponseReadThrows(data) == data.kind = "null"

\* res.json(body) (lines 42, 45): the body as JSON text, read back as its
\* members.  JSON.stringify leaves out a member whose value is undefined.
ResJson(members) == SelectSeq(members, LAMBDA m : m.value # Undefined)

\* The response of line 42.
CodeResponse(generatedCode) ==
    [status |-> 200, body |-> ResJson(<< [key |-> "code", value |-> generatedCode] >>)]

\* The response of line 45.
ErrorResponse ==
    [status |-> 500,
     body |-> ResJson(<< [key |-> "error", value |-> "Failed to generate code."] >>)]

\* A request that has not arrived.  at is the handler's position: "idle",
\* "fetch" (awaiting line 24), "json" (awaiting line 36) or "done"; fetched
\* and decoded record how the two awaits ended ("-" while they have not);
\* sent is the list of responses written; afterFailure records that the
\* request arrived after another one had been answered with an error.
IdleRequest ==
    [at |-> "idle", prompt |-> << >>, reply |-> "-", fetched |-> "-",
     decoded |-> "-", sent |-> << >>, afterFailure |-> FALSE]

\* ------------------------------------------------------------------ state
VARIABLES
    droppedComponents,      \* useState([]): the placement store
    codeOutput,             \* useState(''): << >> or <<document>>
    currentSection,         \* useState('header')
    showComponentSelector,  \* useState(false)
    draggedComponent,       \* useState(null): << >> or <<component>>, of which
                            \* only the id is ever read (lines 463-471)
    dragOffset,             \* useState({x: 0, y: 0})
    listeners,              \* mousemove/mouseup listener pairs on document
    clock,                  \* the value Date.now() returns
    canvasRect,             \* canvasRef.current.getBoundingClientRect()
    alerted,                \* the last event raised the alert() notice
    lastEvent,              \* the event processed last and what it found
    requests                \* the backend's requests and their handlers

\* The state of the App component.
appVars == << droppedComponents, codeOutput, currentSection,
              showComponentSelector, draggedComponent, dragOffset, listeners,
              clock, canvasRect, alerted, lastEvent >>

vars == << droppedComponents, codeOutput, currentSection,
           showComponentSelector, draggedComponent, dragOffset, listeners,
           clock, canvasRect, alerted, lastEvent, requests >>

\* The record of an event that arrives in the current state: its name, the
\* length of the store it finds, whether its payload decodes (drops; TRUE
\* otherwise), the active region it finds (clear and the steps forwards and
\* backwards; "-" otherwise) and whether it repeats the event before it
\* (generation; FALSE otherwise).
EventWith(op, decodes, section) ==
    [op |-> op, n |-> Len(droppedComponents), decodes |-> decodes,
     section |-> section, again |-> FALSE]
Event(op) == EventWith(op, TRUE, "-")

Init ==
    /\ droppedComponents = << >>
    /\ codeOutput = << >>
    /\ currentSection = "header"
    /\ showComponentSelector = FALSE
    /\ draggedComponent = << >>
    /\ dragOffset = [x |-> 0, y |-> 0]
    /\ listeners = << >>
    /\ clock = 0
    /\ canvasRect = InitialCanvasRect
    /\ alerted = FALSE
    /\ lastEvent = [op |-> "other", n |-> 0, decodes |-> TRUE, section |-> "-",
                    again |-> FALSE]
    /\ requests = [r \in Requests |-> IdleRequest]

\* ------------------------------------------------------------------ generator
\* Mutant: every type gets the generic wrapper.
generateHTMLWrapperOnly(comp) == <<"<div>", comp.content, "</div>">>

\* generateHTMLForComponent: the fixed template of a type, or the generic
\* wrapper around the component's content.
generateHTMLForComponent(comp) ==
    CASE comp.type = "site-title" ->
           <<"<h1>Your Website Title</h1>">>
      [] comp.type = "navigation" ->
           <<"<nav><a href=\"#home\">Home</a> | <a href=\"#about\">About</a> | <a href=\"#contact\">Contact</a></nav>">>
      [] comp.type = "logo" ->
           <<"<img src=\"logo.png\" alt=\"Logo\" style=\"height: 50px;\">">>
      [] comp.type = "search-bar" ->
           <<"<input type=\"search\" placeholder=\"Search...\">">>
      [] comp.type = "heading" ->
           <<"<h2>Section Heading</h2>">>
      [] comp.type = "paragraph" ->
           <<"<p>Your content text goes here...</p>">>
      [] comp.type = "button" ->
           <<"<button>Click Me</button>">>
      [] comp.type = "image" ->
           <<"<img src=\"placeholder.jpg\" alt=\"Image\" style=\"max-width: 300px;\">">>
      [] comp.type = "card" ->
           <<"<div style=\"border: 1px solid #ddd; padding: 15px; border-radius: 5px;\"><h3>Card Title</h3><p>Card content...</p></div>">>
      [] comp.type = "list" ->
           <<"<ul><li>List item 1</li><li>List item 2</li><li>List item 3</li></ul>">>
      [] comp.type = "copyright" ->
           <<"<p>&copy; 2025 Your Website. All rights reserved.</p>">>
      [] comp.type = "social-links" ->
           <<"<div><a href=\"#\">Facebook</a> | <a href=\"#\">Twitter</a> | <a href=\"#\">Instagram</a></div>">>
      [] comp.type = "contact-info" ->
           <<"<p>Email: info@example.com | Phone: (123) 456-7890</p>">>
      [] comp.type = "newsletter" ->
           <<"<div><input type=\"email\" placeholder=\"Enter your email\"> <button>Subscribe</button></div>">>
      [] OTHER -> <<"<div>", comp.content, "</div>">>

\* Mutant: the footer filter also takes the components of the body.
RECURSIVE SectionComponentsOverlapping(_, _)
SectionComponentsOverlapping(store, section) ==
    IF store = << >> THEN << >>
    ELSE (IF Head(store).section = section
             \/ (section = "footer" /\ Head(store).section = "body")
          THEN <<Head(store)>> ELSE << >>)
         \o SectionComponentsOverlapping(Tail(store), section)

\* The components of one section, in store order (the .filter of lines 211-224).
RECURSIVE SectionComponents(_, _)
SectionComponents(store, section) ==
    IF store = << >> THEN << >>
    ELSE (IF Head(store).section = section THEN <<Head(store)>> ELSE << >>)
         \o SectionComponents(Tail(store), section)

\* .map(generateHTMLForComponent).join('\n    ')
JoinSeparator == "\n    "
RECURSIVE JoinTemplates(_)
JoinTemplates(comps) ==
    IF comps = << >> THEN << >>
    ELSE IF Len(comps) = 1 THEN generateHTMLForComponent(comps[1])
    ELSE generateHTMLForComponent(comps[1]) \o <<JoinSeparator>> \o JoinTemplates(Tail(comps))

\* text || '    ' : the empty text is falsy.
EmptySentinel == <<"    ">>
\* Mutant: an empty text is left empty.
OrNothing(text) == text
OrSentinel(text) == IF text = << >> THEN EmptySentinel ELSE text

SectionMarkup(store, section) == OrSentinel(JoinTemplates(SectionComponents(store, section)))

\* The template literal of lines 226-252; each literal fragment stands for
\* the static boilerplate between two insertion points.
fullCode(store) ==
    <<"<!DOCTYPE html>...<body> <header>">>
    \o SectionMarkup(store, "header")
    \o <<"</header> <main>">>
    \o SectionMarkup(store, "body")
    \o <<"</main> <footer>">>
    \o SectionMarkup(store, "footer")
    \o <<"</footer> </body> </html>">>

\* Mutant: the document is appended to the one generated before.
fullCodeAppended(store) ==
    (IF codeOutput = << >> THEN << >> ELSE codeOutput[1]) \o fullCode(store)

\* setCodeOutput(fullCode), line 254: the document replaces the old one.
GeneratedOutput(store) == fullCode(store)

\* Mutant: the empty store is not rejected.
GenerateNeverRejected(store) == FALSE

\* The guard of handleGenerateCode (line 206).
GenerateRejected(store) == Len(store) = 0

\* ------------------------------------------------------------------ geometry
\* handleDrop, lines 91-92: the bias that centres the component on the
\* pointer and the footprint the drop is clamped with.
DropBiasX == 50
DropBiasY == 25
DropFootprintWidth == 100
DropFootprintHeight == 50
\* Mutant: the origin of the canvas is not subtracted.
dropXIgnoringOrigin(px, rect) == Max(0, Min(px - DropBiasX, rect.width - DropFootprintWidth))
dropX(px, rect) == Max(0, Min(px - rect.left - DropBiasX, rect.width - DropFootprintWidth))
dropY(py, rect) == Max(0, Min(py - rect.top - DropBiasY, rect.height - DropFootprintHeight))

\* handleComponentSelect, lines 117-119 and 125.
SelectX == 50
StackStep == 80
baseY(section) == IF section = "header" THEN 20 ELSE IF section = "body" THEN 200 ELSE 600
\* Mutant: every selection lands on the baseline of its section.
offsetYNone(store, section) == 0
\* Mutant: the stack counts every component, whatever its section.
offsetYAllSections(store, section) == Len(store) * StackStep
offsetY(store, section) == Len(SectionComponents(store, section)) * StackStep

\* handleMouseMove, lines 162-163; offset is the dragOffset the closure holds.
MoveFootprintWidth == 150
MoveFootprintHeight == 80
\* Mutant: the upper clamp is missing.
newXNoUpperClamp(px, rect, offset) == Max(0, px - rect.left - offset.x)
newX(px, rect, offset) == Max(0, Min(px - rect.left - offset.x, rect.width - MoveFootprintWidth))
newY(py, rect, offset) == Max(0, Min(py - rect.top - offset.y, rect.height - MoveFootprintHeight))

\* Mutant: only the first record with the id is removed.
RECURSIVE RemoveFirstById(_, _)
RemoveFirstById(store, componentId) ==
    IF store = << >> THEN << >>
    ELSE IF Head(store).id = componentId THEN Tail(store)
    ELSE <<Head(store)>> \o RemoveFirstById(Tail(store), componentId)

\* handleDeleteComponent, line 134.
RECURSIVE RemoveById(_, _)
RemoveById(store, componentId) ==
    IF store = << >> THEN << >>
    ELSE (IF Head(store).id # componentId THEN <<Head(store)>> ELSE << >>)
         \o RemoveById(Tail(store), componentId)

\* Mutant: the moved component is taken out and put back at the end.
MoveByIdToEnd(store, componentId, pos) ==
    SelectSeq(store, LAMBDA comp : comp.id # componentId)
    \o [i \in 1..Len(SelectSeq(store, LAMBDA comp : comp.id = componentId)) |->
           [SelectSeq(store, LAMBDA comp : comp.id = componentId)[i]
               EXCEPT !.position = pos]]

\* Mutant: the moved component is also put into the active section.
MoveByIdIntoActiveSection(store, componentId, pos) ==
    [i \in 1..Len(store) |->
        IF store[i].id = componentId
        THEN [store[i] EXCEPT !.position = pos, !.section = currentSection]
        ELSE store[i]]

\* The .map of lines 165-171 for one listener.
MoveById(store, componentId, pos) ==
    [i \in 1..Len(store) |->
        IF store[i].id = componentId
        THEN [store[i] EXCEPT !.position = pos]
        ELSE store[i]]

\* Mutant: a listener whose component is gone puts a record back.
RECURSIVE RunMoveListenersRecreating(_, _, _, _)
RunMoveListenersRecreating(store, ls, p, rect) ==
    IF ls = << >> THEN store
    ELSE LET pos == [x |-> newX(p.x, rect, Head(ls).offset),
                     y |-> newY(p.y, rect, Head(ls).offset)]
             moved == IF \E i \in 1..Len(store) : store[i].id = Head(ls).id
                      THEN MoveById(store, Head(ls).id, pos)
                      ELSE Append(store, [id |-> Head(ls).id, type |-> Undefined,
                                          content |-> Undefined, position |-> pos,
                                          section |-> "header"])
         IN  RunMoveListenersRecreating(moved, Tail(ls), p, rect)

\* A mousemove event runs every registered handleMouseMove, in registration order.
RECURSIVE RunMoveListeners(_, _, _, _)
RunMoveListeners(store, ls, p, rect) ==
    IF ls = << >> THEN store
    ELSE RunMoveListeners(
             MoveById(store, Head(ls).id,
                      [x |-> newX(p.x, rect, Head(ls).offset),
                       y |-> newY(p.y, rect, Head(ls).offset)]),
             Tail(ls), p, rect)

\* Mutant: the guard against a session in progress is missing.
DropNeverSuppressed(dragged) == FALSE

\* handleDrop, line 84.
DropSuppressed(dragged) == dragged # << >>

\* ------------------------------------------------------------------ actions
ZeroOffset == [x |-> 0, y |-> 0]

\* The drop of handleDrop reaches the append of line 102.
DropAppends(text) ==
    /\ ~DropSuppressed(draggedComponent)
    /\ ~JSONParse(text).throws
    /\ ~PropertyReadThrows(JSONParse(text).value)

\* The record built at lines 94-100.
DropComponent(p, text) ==
    [id |-> clock,
     type |-> JSONParse(text).value.type,
     content |-> JSONParse(text).value.content,
     position |-> [x |-> dropX(p.x, canvasRect), y |-> dropY(p.y, canvasRect)],
     section |-> currentSection]

\* handleDrop (lines 79-107).
HandleDrop(p, text) ==
    /\ IF DropAppends(text)
       THEN /\ droppedComponents' = Append(droppedComponents, DropComponent(p, text))
            /\ showComponentSelector' = FALSE
       ELSE UNCHANGED << droppedComponents, showComponentSelector >>
    /\ alerted' = FALSE
    /\ UNCHANGED requests
    /\ lastEvent' = EventWith("drop",
                             ~JSONParse(text).throws
                                /\ ~PropertyReadThrows(JSONParse(text).value),
                             "-")
    /\ UNCHANGED << codeOutput, currentSection, draggedComponent, dragOffset,
                    listeners, clock, canvasRect >>

\* handleAddComponent (lines 109-111).
HandleAddComponent ==
    /\ showComponentSelector' = TRUE
    /\ alerted' = FALSE
    /\ UNCHANGED requests
    /\ lastEvent' = Event("other")
    /\ UNCHANGED << droppedComponents, codeOutput, currentSection,
                    draggedComponent, dragOffset, listeners, clock, canvasRect >>

\* The Cancel button of the selector modal (line 396).
CancelSelector ==
    /\ showComponentSelector
    /\ showComponentSelector' = FALSE
    /\ alerted' = FALSE
    /\ UNCHANGED requests
    /\ lastEvent' = Event("other")
    /\ UNCHANGED << droppedComponents, codeOutput, currentSection,
                    draggedComponent, dragOffset, listeners, clock, canvasRect >>

\* The record built at lines 121-127.
SelectComponent(component) ==
    [id |-> clock,
     type |-> component.type,
     content |-> component.content,
     position |-> [x |-> SelectX,
                   y |-> baseY(currentSection) + offsetY(droppedComponents, currentSection)],
     section |-> currentSection]

\* handleComponentSelect (lines 113-131), clicked in the modal (lines 384-392).
HandleComponentSelect(component) ==
    /\ showComponentSelector
    /\ droppedComponents' = Append(droppedComponents, SelectComponent(component))
    /\ showComponentSelector' = FALSE
    /\ alerted' = FALSE
    /\ UNCHANGED requests
    /\ lastEvent' = Event("select")
    /\ UNCHANGED << codeOutput, currentSection, draggedComponent,
                    dragOffset, listeners, clock, canvasRect >>

\* Mutant: a delete brings a displayed document up to date.
HandleDeleteComponentRegenerating(componentId) ==
    /\ droppedComponents' = RemoveById(droppedComponents, componentId)
    /\ codeOutput' = IF codeOutput = << >> THEN << >>
                     ELSE <<fullCode(RemoveById(droppedComponents, componentId))>>
    /\ alerted' = FALSE
    /\ UNCHANGED requests
    /\ lastEvent' = Event("delete")
    /\ UNCHANGED << currentSection, showComponentSelector,
                    draggedComponent, dragOffset, listeners, clock, canvasRect >>

\* Mutant: deleting the component under reposition ends the session.
HandleDeleteComponentEndingSession(componentId) ==
    /\ droppedComponents' = RemoveById(droppedComponents, componentId)
    /\ IF draggedComponent # << >> /\ draggedComponent[1].id = componentId
       THEN /\ draggedComponent' = << >>
            /\ listeners' = << >>
       ELSE UNCHANGED << draggedComponent, listeners >>
    /\ alerted' = FALSE
    /\ UNCHANGED requests
    /\ lastEvent' = Event("delete")
    /\ UNCHANGED << codeOutput, currentSection, showComponentSelector,
                    dragOffset, clock, canvasRect >>

\* handleDeleteComponent (lines 133-135).
HandleDeleteComponent(componentId) ==
    /\ droppedComponents' = RemoveById(droppedComponents, componentId)
    /\ alerted' = FALSE
    /\ UNCHANGED requests
    /\ lastEvent' = Event("delete")
    /\ UNCHANGED << codeOutput, currentSection, showComponentSelector,
                    draggedComponent, dragOffset, listeners, clock, canvasRect >>

\* handleComponentMouseDown (lines 137-187) on the i-th rendered component.
\* The listeners it registers close over the component and over the
\* dragOffset of the current render, not over the offset set at line 151.
HandleComponentMouseDown(i, offset) ==
    /\ i \in 1..Len(droppedComponents)
    /\ draggedComponent' = <<[id |-> droppedComponents[i].id]>>
    /\ dragOffset' = offset
    /\ listeners' = Append(listeners,
                           [id |-> droppedComponents[i].id, offset |-> dragOffset])
    /\ alerted' = FALSE
    /\ UNCHANGED requests
    /\ lastEvent' = Event("press")
    /\ UNCHANGED << droppedComponents, codeOutput, currentSection,
                    showComponentSelector, clock, canvasRect >>

\* Mutant: a press on a button is handled like any other press.
PressNeverStopped(tagName) == FALSE

\* A press whose target is a BUTTON starts nothing: the delete button stops
\* it (line 480) and handleComponentMouseDown returns on it (line 139).
PressStopped(tagName) == tagName = "BUTTON"

\* A mousedown on the delete button of the i-th rendered component.
PressDeleteButton(i) ==
    /\ i \in 1..Len(droppedComponents)
    /\ IF PressStopped("BUTTON")
       THEN /\ alerted' = FALSE
            /\ UNCHANGED requests
            /\ lastEvent' = Event("pressdelete")
            /\ UNCHANGED << droppedComponents, codeOutput, currentSection,
                            showComponentSelector, draggedComponent, dragOffset,
                            listeners, clock, canvasRect >>
       ELSE HandleComponentMouseDown(i, ZeroOffset)

\* Mutant: the rectangle measured at the first layout is used for good.
MoveGeometryCached == InitialCanvasRect

\* canvasRef.current.getBoundingClientRect() inside handleMouseMove (line
\* 161): the rectangle of the canvas at the time of the mousemove.
MoveGeometry == canvasRect

\* A mousemove on document: every registered handleMouseMove (lines 157-172).
DocumentMouseMove(p) ==
    /\ droppedComponents' = RunMoveListeners(droppedComponents, listeners, p, MoveGeometry)
    /\ alerted' = FALSE
    /\ UNCHANGED requests
    /\ lastEvent' = Event("move")
    /\ UNCHANGED << codeOutput, currentSection, showComponentSelector,
                    draggedComponent, dragOffset, listeners, clock, canvasRect >>

\* Mutant: a release also makes the header the active section.
DocumentMouseUpResettingSection ==
    /\ IF listeners = << >>
       THEN UNCHANGED << draggedComponent, dragOffset, listeners, currentSection >>
       ELSE /\ draggedComponent' = << >>
            /\ dragOffset' = [x |-> 0, y |-> 0]
            /\ listeners' = << >>
            /\ currentSection' = "header"
    /\ alerted' = FALSE
    /\ UNCHANGED requests
    /\ lastEvent' = Event("release")
    /\ UNCHANGED << droppedComponents, codeOutput,
                    showComponentSelector, clock, canvasRect >>

\* Mutant: a release leaves the document listeners registered.
DocumentMouseUpKeepingListeners ==
    /\ IF listeners = << >>
       THEN UNCHANGED << draggedComponent, dragOffset >>
       ELSE /\ draggedComponent' = << >>
            /\ dragOffset' = [x |-> 0, y |-> 0]
    /\ alerted' = FALSE
    /\ UNCHANGED requests
    /\ lastEvent' = Event("release")
    /\ UNCHANGED << droppedComponents, codeOutput, currentSection,
                    showComponentSelector, listeners, clock, canvasRect >>

\* A mouseup on document: every registered handleMouseUp (lines 174-183).
DocumentMouseUp ==
    /\ IF listeners = << >>
       THEN UNCHANGED << draggedComponent, dragOffset, listeners >>
       ELSE /\ draggedComponent' = << >>
            /\ dragOffset' = [x |-> 0, y |-> 0]
            /\ listeners' = << >>
    /\ alerted' = FALSE
    /\ UNCHANGED requests
    /\ lastEvent' = Event("release")
    /\ UNCHANGED << droppedComponents, codeOutput, currentSection,
                    showComponentSelector, clock, canvasRect >>

\* The section buttons (lines 330, 342, 354).
SetCurrentSection(section) ==
    /\ currentSection' = section
    /\ alerted' = FALSE
    /\ UNCHANGED requests
    /\ lastEvent' = Event("other")
    /\ UNCHANGED << droppedComponents, codeOutput,
                    showComponentSelector, draggedComponent, dragOffset,
                    listeners, clock, canvasRect >>

\* Mutant: after the footer comes the header again.
nextSectionWrapping(section) ==
    IF section = "header" THEN "body"
    ELSE IF section = "body" THEN "footer"
    ELSE "header"

\* The section handleNextSection stores (lines 190-194); no call of
\* setCurrentSection keeps the section.
nextSection(section) ==
    IF section = "header" THEN "body"
    ELSE IF section = "body" THEN "footer"
    ELSE section

\* The section handlePrevSection stores (lines 198-202).
prevSection(section) ==
    IF section = "body" THEN "header"
    ELSE IF section = "footer" THEN "body"
    ELSE section

\* handleNextSection (lines 189-195).  No element of the page is bound to
\* it; the action is a call of the handler.
HandleNextSection ==
    /\ currentSection' = nextSection(currentSection)
    /\ alerted' = FALSE
    /\ UNCHANGED requests
    /\ lastEvent' = EventWith("next", TRUE, currentSection)
    /\ UNCHANGED << droppedComponents, codeOutput,
                    showComponentSelector, draggedComponent, dragOffset,
                    listeners, clock, canvasRect >>

\* handlePrevSection (lines 197-203), called like handleNextSection.
HandlePrevSection ==
    /\ currentSection' = prevSection(currentSection)
    /\ alerted' = FALSE
    /\ UNCHANGED requests
    /\ lastEvent' = EventWith("prev", TRUE, currentSection)
    /\ UNCHANGED << droppedComponents, codeOutput,
                    showComponentSelector, draggedComponent, dragOffset,
                    listeners, clock, canvasRect >>

\* handleGenerateCode (lines 205-255).
HandleGenerateCode ==
    /\ IF GenerateRejected(droppedComponents)
       THEN /\ alerted' = TRUE
            /\ UNCHANGED codeOutput
       ELSE /\ alerted' = FALSE
            /\ codeOutput' = <<GeneratedOutput(droppedComponents)>>
    /\ UNCHANGED requests
    /\ lastEvent' = [Event("generate") EXCEPT !.again = (lastEvent.op = "generate")]
    /\ UNCHANGED << droppedComponents, currentSection,
                    showComponentSelector, draggedComponent, dragOffset,
                    listeners, clock, canvasRect >>

\* Mutant: a clear spares the component under reposition.
ClearedComponentsButDragged ==
    SelectSeq(droppedComponents,
              LAMBDA comp : draggedComponent # << >> /\ comp.id = draggedComponent[1].id)
\* The values handleClearCanvas stores (lines 293-295).
ClearedComponents == << >>
\* Mutant: the active region is kept.
ClearedSectionKept == currentSection
ClearedSection == "header"

\* handleClearCanvas (lines 292-296).
HandleClearCanvas ==
    /\ droppedComponents' = ClearedComponents
    /\ codeOutput' = << >>
    /\ currentSection' = ClearedSection
    /\ alerted' = FALSE
    /\ UNCHANGED requests
    /\ lastEvent' = EventWith("clear", TRUE, currentSection)
    /\ UNCHANGED << showComponentSelector, draggedComponent,
                    dragOffset, listeners, clock, canvasRect >>

\* The millisecond clock behind Date.now() (lines 95, 122) advances.
Tick ==
    /\ clock < MaxClock
    /\ clock' = clock + 1
    /\ alerted' = FALSE
    /\ UNCHANGED requests
    /\ lastEvent' = Event("other")
    /\ UNCHANGED << droppedComponents, codeOutput, currentSection,
                    showComponentSelector, draggedComponent, dragOffset, listeners,
                    canvasRect >>

\* The host lays the canvas out anew; getBoundingClientRect (lines 88, 161)
\* returns the new rectangle from then on.
Layout(rect) ==
    /\ rect # canvasRect
    /\ canvasRect' = rect
    /\ alerted' = FALSE
    /\ UNCHANGED requests
    /\ lastEvent' = Event("other")
    /\ UNCHANGED << droppedComponents, codeOutput, currentSection,
                    showComponentSelector, draggedComponent, dragOffset, listeners,
                    clock >>

\* ------------------------------------------------------------------ backend actions
\* Some request has been answered with an error.
SomeFailure ==
    \E q \in Requests : requests[q].sent # << >> /\ requests[q].sent[1].status = 500

\* The handler from its start to the first await (lines 11-34): the request
\* r arrives with the component list components in its body, the prompt is
\* built and the call of the text-generation service is issued.
ReceiveRequest(r, components) ==
    /\ requests[r].at = "idle"
    /\ requests' = [requests EXCEPT ![r] =
                       [@ EXCEPT !.at = "fetch", !.prompt = Prompt(components),
                                 !.afterFailure = SomeFailure]]
    /\ UNCHANGED appVars

\* The catch block (lines 43-46) for request r, entered from the await
\* named by field.
Caught(r, field) ==
    [requests EXCEPT ![r] =
        [@ EXCEPT !.at = "done", ![field] = "rejected",
                  !.sent = Append(@, ErrorResponse)]]

\* fetch resolves (line 24) with a response whose body is text; the
\* handler goes on to its second await (line 36).
FetchResolves(r, text) ==
    /\ requests[r].at = "fetch"
    /\ requests' = [requests EXCEPT ![r] =
                       [@ EXCEPT !.at = "json", !.reply = text, !.fetched = "resolved"]]
    /\ UNCHANGED appVars

\* fetch rejects (line 24: the service is not reachable); the catch block
\* answers.
FetchRejects(r) ==
    /\ requests[r].at = "fetch"
    /\ requests' = Caught(r, "fetched")
    /\ UNCHANGED appVars

\* response.json() settles (line 36) and the handler runs to its end
\* (lines 36-46): a rejection and a TypeError of line 39 are both caught;
\* otherwise the generated code is sent.
ResponseJsonSettles(r) ==
    /\ requests[r].at = "json"
    /\ requests' =
          IF ResponseJson(requests[r].reply).throws
          THEN Caught(r, "decoded")
          ELSE IF ResponseReadThrows(ResponseJson(requests[r].reply).value)
          THEN [requests EXCEPT ![r] =
                   [@ EXCEPT !.at = "done", !.decoded = "resolved",
                             !.sent = Append(@, ErrorResponse)]]
          ELSE [requests EXCEPT ![r] =
                   [@ EXCEPT !.at = "done", !.decoded = "resolved",
                             !.sent = Append(@,
                                 CodeResponse(ResponseJson(requests[r].reply).value.response))]]
    /\ UNCHANGED appVars

\* ------------------------------------------------------------------ specifications
\* The store has room for one more component, up to the bound cap.
Room(cap) == Len(droppedComponents) < cap

\* Dropping: drops with every payload and pointer, deletion, navigation and
\* clearing, with reposition sessions opening and closing around them, all
\* within one millisecond of the clock.
NextDrop ==
    \/ \E p \in Pointers, text \in DropPayloads :
          (DropAppends(text) => Room(MaxComponents)) /\ HandleDrop(p, text)
    \/ \E componentId \in 0..MaxClock : HandleDeleteComponent(componentId)
    \/ \E i \in 1..MaxComponents :
          Len(listeners) < MaxListeners /\ HandleComponentMouseDown(i, ZeroOffset)
    \/ DocumentMouseUp
    \/ \E section \in Sections : SetCurrentSection(section)
    \/ HandleClearCanvas

Spec == Init /\ [][NextDrop]_vars

\* Building: selections stacking up in the sections, one kind of drop,
\* deletion, navigation, clearing and the clock.
NextBuild ==
    \/ HandleAddComponent
    \/ CancelSelector
    \/ \E k \in SelectIndices :
          Room(MaxStack)
          /\ HandleComponentSelect(getAvailableComponents(currentSection)[k])
    \/ Room(MaxStack) /\ HandleDrop([x |-> 300, y |-> 200], ButtonPayload)
    \/ \E componentId \in 0..MaxClock : HandleDeleteComponent(componentId)
    \/ \E section \in Sections : SetCurrentSection(section)
    \/ HandleClearCanvas
    \/ Tick

SpecBuild == Init /\ [][NextBuild]_vars

\* Generation: the store is filled by selection, emptied by
\* deletion and clearing, and the document is generated in between.
NextGen ==
    \/ HandleAddComponent
    \/ \E k \in SelectIndices :
          Room(MaxComponents)
          /\ HandleComponentSelect(getAvailableComponents(currentSection)[k])
    \/ \E componentId \in 0..MaxClock : HandleDeleteComponent(componentId)
    \/ \E section \in Sections : SetCurrentSection(section)
    \/ HandleGenerateCode
    \/ HandleClearCanvas
    \/ Tick

SpecGen == Init /\ [][NextGen]_vars

\* Repositioning: components placed by selection into the header are
\* pressed, moved and released while the layout changes and components are
\* deleted or cleared.
NextDrag ==
    \/ HandleAddComponent
    \/ \E k \in SelectIndices :
          Room(MaxComponents)
          /\ HandleComponentSelect(getAvailableComponents(currentSection)[k])
    \/ \E componentId \in 0..MaxClock : HandleDeleteComponent(componentId)
    \/ \E i \in 1..MaxComponents : PressDeleteButton(i)
    \/ \E i \in 1..MaxComponents, offset \in PressOffsets :
          Len(listeners) < MaxListeners /\ HandleComponentMouseDown(i, offset)
    \/ \E p \in Pointers : DocumentMouseMove(p)
    \/ DocumentMouseUp
    \/ HandleClearCanvas
    \/ Tick
    \/ \E rect \in CanvasRects : Layout(rect)

SpecDrag == Init /\ [][NextDrag]_vars

\* Ordering: buttons and logos dropped into the header and, once the body
\* is made the active section, into the body are repositioned, one session
\* after the other, and deleted.
NextOrder ==
    \/ \E text \in {ButtonPayload, LogoPayload} :
          Room(MaxStack) /\ HandleDrop([x |-> 300, y |-> 200], text)
    \/ \E componentId \in 0..MaxClock : HandleDeleteComponent(componentId)
    \/ \E i \in 1..MaxStack :
          listeners = << >> /\ HandleComponentMouseDown(i, ZeroOffset)
    \/ DocumentMouseMove([x |-> 5000, y |-> 5000])
    \/ DocumentMouseUp
    \/ SetCurrentSection("body")
    \/ Tick

SpecOrder == Init /\ [][NextOrder]_vars

\* Sessions: every kind of event arrives while reposition sessions open
\* and close one after the other.
NextSession ==
    \/ HandleAddComponent
    \/ \E k \in SelectIndices :
          Room(MaxComponents)
          /\ HandleComponentSelect(getAvailableComponents(currentSection)[k])
    \/ Room(MaxComponents) /\ HandleDrop([x |-> 300, y |-> 200], ButtonPayload)
    \/ \E componentId \in 0..MaxClock : HandleDeleteComponent(componentId)
    \/ \E i \in 1..MaxComponents :
          listeners = << >> /\ HandleComponentMouseDown(i, ZeroOffset)
    \/ DocumentMouseMove([x |-> 5000, y |-> 5000])
    \/ DocumentMouseUp
    \/ SetCurrentSection("body")
    \/ HandleGenerateCode
    \/ HandleClearCanvas
    \/ Tick

SpecSession == Init /\ [][NextSession]_vars

\* Presses: a second press (another mouse button, or a press after a
\* release that happened outside the window) arrives before the release of
\* the first one, and the pointer moves.
NextPresses ==
    \/ Room(MaxComponents) /\ HandleDrop([x |-> 300, y |-> 200], ButtonPayload)
    \/ \E i \in 1..MaxComponents, offset \in PressOffsets :
          Len(listeners) < MaxPresses /\ HandleComponentMouseDown(i, offset)
    \/ \E p \in Pointers : DocumentMouseMove(p)
    \/ DocumentMouseUp
    \/ Tick

SpecPresses == Init /\ [][NextPresses]_vars

\* Placing: buttons and logos are dropped anywhere, into the header and the
\* footer and on every layout of the canvas, between reposition sessions and
\* during them.
NextPlace ==
    \/ \E p \in DropPointers, text \in {ButtonPayload, LogoPayload} :
          (DropAppends(text) => Room(MaxComponents)) /\ HandleDrop(p, text)
    \/ \E i \in 1..MaxComponents :
          listeners = << >> /\ HandleComponentMouseDown(i, ZeroOffset)
    \/ DocumentMouseUp
    \/ SetCurrentSection("footer")
    \/ \E rect \in CanvasRects : Layout(rect)
    \/ HandleClearCanvas

SpecPlace == Init /\ [][NextPlace]_vars

\* Templates: the store holds two header components of any type and label
\* (placed by drops), and the document is generated from it, from what a
\* delete leaves of it and after it was cleared.
InitTemplates ==
    /\ droppedComponents \in
          { << [id |-> 0, type |-> t1, content |-> c1,
                position |-> [x |-> 250, y |-> 175], section |-> "header"],
               [id |-> 1, type |-> t2, content |-> c2,
                position |-> [x |-> 250, y |-> 175], section |-> "header"] >> :
               t1 \in TemplateTypes, t2 \in TemplateTypes,
               c1 \in TemplateContents, c2 \in TemplateContents }
    /\ codeOutput = << >>
    /\ currentSection = "header"
    /\ showComponentSelector = FALSE
    /\ draggedComponent = << >>
    /\ dragOffset = [x |-> 0, y |-> 0]
    /\ listeners = << >>
    /\ clock = 1
    /\ canvasRect = InitialCanvasRect
    /\ alerted = FALSE
    /\ lastEvent = [op |-> "drop", n |-> 1, decodes |-> TRUE, section |-> "-",
                    again |-> FALSE]
    /\ requests = [r \in Requests |-> IdleRequest]

NextTemplates ==
    \/ HandleGenerateCode
    \/ \E componentId \in 0..MaxClock : HandleDeleteComponent(componentId)
    \/ HandleClearCanvas

SpecTemplates == InitTemplates /\ [][NextTemplates]_vars

\* Geometry: the layout of the canvas changes between and during
\* reposition sessions, while buttons are dropped at (300, 200) and the
\* pointer moves to (300, 200).
NextGeometry ==
    \/ Room(MaxComponents) /\ HandleDrop([x |-> 300, y |-> 200], ButtonPayload)
    \/ \E i \in 1..MaxComponents :
          listeners = << >> /\ HandleComponentMouseDown(i, ZeroOffset)
    \/ DocumentMouseMove([x |-> 300, y |-> 200])
    \/ DocumentMouseUp
    \/ \E rect \in CanvasRects : Layout(rect)
    \/ Tick

SpecGeometry == Init /\ [][NextGeometry]_vars

\* Navigation: the active section is stepped forwards and backwards and
\* set by the section buttons while components are selected into it and
\* deleted.
NextNavigation ==
    \/ HandleNextSection
    \/ HandlePrevSection
    \/ \E section \in Sections : SetCurrentSection(section)
    \/ HandleAddComponent
    \/ \E k \in SelectIndices :
          Room(MaxComponents)
          /\ HandleComponentSelect(getAvailableComponents(currentSection)[k])
    \/ \E componentId \in 0..MaxClock : HandleDeleteComponent(componentId)
    \/ Tick

SpecNavigation == Init /\ [][NextNavigation]_vars

\* The backend: requests arrive, and the two awaits of each handler settle
\* in any order across the requests.
NextBackend ==
    \/ \E r \in Requests, components \in ComponentLists : ReceiveRequest(r, components)
    \/ \E r \in Requests, text \in UpstreamBodies : FetchResolves(r, text)
    \/ \E r \in Requests : FetchRejects(r)
    \/ \E r \in Requests : ResponseJsonSettles(r)

SpecBackend == Init /\ [][NextBackend]_vars

\* ------------------------------------------------------------------ claims
\* Vocabulary of the claims, written without the operators of the handlers.
Store == droppedComponents
LastComponent == Store[Len(Store)]
Appended == Len(Store) = lastEvent.n + 1
Dragging == listeners # << >>
ClampTo(v, hi) == IF v < 0 THEN 0 ELSE IF v > hi THEN hi ELSE v
IndicesOf(store, section) == { i \in 1..Len(store) : store[i].section = section }
HasId(store, id) == \E i \in 1..Len(store) : store[i].id = id

\* C1: after a drop with a decodable payload or a selection, the appended
\* component lies in [0, canvasWidth - footprintWidth] x
\* [0, canvasHeight - footprintHeight] (with the smallest footprint the code
\* uses, 100 x 50).
C1_PlacedInsideCanvas ==
    (lastEvent.op \in {"drop", "select"} /\ Appended) =>
        /\ 0 <= LastComponent.position.x
        /\ LastComponent.position.x <= canvasRect.width - 100
        /\ 0 <= LastComponent.position.y
        /\ LastComponent.position.y <= canvasRect.height - 50

\* C2: the records of the store have pairwise distinct ids.
C2_DistinctIds ==
    \A i, j \in 1..Len(Store) : i # j => Store[i].id # Store[j].id

\* C3: every pointer-move of a session stores, for the pressed component,
\* clamp(pointer - canvasOrigin - capturedOffset), the captured offset
\* being the one measured at the press that opened the session (dragOffset).
C3_MoveUsesCapturedOffset ==
    [][ \A p \in Pointers :
          (DocumentMouseMove(p) /\ draggedComponent # << >>) =>
             \A i \in 1..Len(Store') :
                Store'[i].id = draggedComponent[1].id =>
                   Store'[i].position =
                      [x |-> ClampTo(p.x - canvasRect.left - dragOffset.x,
                                     canvasRect.width - 150),
                       y |-> ClampTo(p.y - canvasRect.top - dragOffset.y,
                                     canvasRect.height - 80)] ]_vars

\* C4: on a canvas at least 150 wide and 80 high, after a pointer-move every
\* component under reposition lies in [0, W-150] x [0, H-80]; a move whose
\* target is at or below 0 stores 0 and one whose target is at or beyond the
\* upper limit stores the limit (on 1200x800: (0,0) and (1050,720)).
C4_MoveClampedToCanvas ==
    [][ \A p \in Pointers :
          (DocumentMouseMove(p) /\ canvasRect.width >= 150 /\ canvasRect.height >= 80) =>
             \A i \in 1..Len(Store') :
                (\E k \in 1..Len(listeners) : listeners[k].id = Store'[i].id) =>
                   LET pos == Store'[i].position
                       tx(k) == p.x - canvasRect.left - listeners[k].offset.x
                       ty(k) == p.y - canvasRect.top - listeners[k].offset.y
                       ks == 1..Len(listeners)
                   IN  /\ 0 <= pos.x /\ pos.x <= canvasRect.width - 150
                       /\ 0 <= pos.y /\ pos.y <= canvasRect.height - 80
                       /\ (\A k \in ks : tx(k) <= 0) => pos.x = 0
                       /\ (\A k \in ks : ty(k) <= 0) => pos.y = 0
                       /\ (\A k \in ks : tx(k) >= canvasRect.width - 150)
                             => pos.x = canvasRect.width - 150
                       /\ (\A k \in ks : ty(k) >= canvasRect.height - 80)
                             => pos.y = canvasRect.height - 80 ]_vars

\* C4 witness: a move on the 1200x800 canvas left a pressed component at (1050,720).
C4_Witness ==
    /\ lastEvent.op = "move"
    /\ canvasRect = [left |-> 0, top |-> 0, width |-> 1200, height |-> 800]
    /\ \E i \in 1..Len(Store), k \in 1..Len(listeners) :
          /\ Store[i].id = listeners[k].id
          /\ Store[i].position = [x |-> 1050, y |-> 720]

\* C5: a selection appends a component at x = 50 and
\* y = baseline(ActiveRegion) + 80 * n, n being the number of components of
\* the active region already in the store (header 20, body 200, footer 600).
C5_SelectStacks ==
    lastEvent.op = "select" =>
        /\ Appended
        /\ LastComponent.section = currentSection
        /\ LastComponent.position.x = 50
        /\ LastComponent.position.y =
              (CASE currentSection = "header" -> 20
                 [] currentSection = "body" -> 200
                 [] currentSection = "footer" -> 600)
              + 80 * Cardinality(IndicesOf(SubSeq(Store, 1, Len(Store) - 1), currentSection))

\* C5 witness: three selections into body gave y = 200, 280, 360.
C5_Witness ==
    /\ lastEvent.op = "select"
    /\ currentSection = "body"
    /\ Len(Store) = 3
    /\ \A i \in 1..3 : Store[i].section = "body" /\ Store[i].position.x = 50
    /\ Store[1].position.y = 200
    /\ Store[2].position.y = 280
    /\ Store[3].position.y = 360

\* C6: a drop whose payload is empty, is not JSON, or is JSON that is not an
\* object changes neither the store, the active region nor the session.
UndecodablePayloads == {"", "not json", "null", NumberPayload}
C6_UndecodableDropIgnored ==
    [][ \A p \in Pointers, text \in UndecodablePayloads :
          HandleDrop(p, text) =>
             UNCHANGED << droppedComponents, currentSection, draggedComponent,
                          dragOffset, listeners >> ]_vars

\* C7: while a reposition session is active a drop appends nothing: the store
\* is the same after the drop as before it.
C7_NoDropWhileDragging ==
    [][ (Dragging /\ lastEvent'.op = "drop") => Store' = Store ]_vars

\* C7 witness: a drop with a decodable payload was processed while a session
\* was active, and the store kept its length.
C7_Witness ==
    /\ lastEvent.op = "drop"
    /\ lastEvent.decodes
    /\ Dragging
    /\ Len(Store) = lastEvent.n

\* C8: after remove(id) no record has that id, and removing an id that is
\* not in the store leaves the store unchanged.
C8_RemoveById ==
    [][ \A componentId \in 0..MaxClock :
          HandleDeleteComponent(componentId) =>
             /\ ~HasId(Store', componentId)
             /\ ~HasId(Store, componentId) => Store' = Store ]_vars

\* C8 witness: a delete removed a record and left another one in the store.
C8_Witness ==
    /\ lastEvent.op = "delete"
    /\ lastEvent.n > Len(Store)
    /\ Len(Store) >= 1

\* C9: clear() yields an empty store and the active region header.
C9_ClearResets ==
    lastEvent.op = "clear" => (Store = << >> /\ currentSection = "header")

\* C9 witness: a store of N > 0 components was cleared while the active
\* region was footer.
C9_Witness ==
    /\ lastEvent.op = "clear"
    /\ lastEvent.n > 0
    /\ lastEvent.section = "footer"
    /\ Store = << >>

\* C10: a generation request on the empty store raises the notice and
\* changes neither the generated output, the store nor the active region.
C10_EmptyGenerateRejected ==
    [][ (HandleGenerateCode /\ Store = << >>) =>
          /\ alerted'
          /\ UNCHANGED << codeOutput, droppedComponents, currentSection >> ]_vars

\* C10 witness: generation was rejected on a store emptied after an earlier
\* successful generation (its document is still displayed).
C10_Witness ==
    /\ lastEvent.op = "generate"
    /\ alerted
    /\ Store = << >>
    /\ codeOutput # << >>

\* C11: a generation request changes neither the store, the active region
\* nor the reposition session, and a request that directly follows another
\* one (so the store did not change in between) leaves the generated output
\* as the first one made it.
C11_GeneratePure ==
    [][ lastEvent'.op = "generate" =>
          /\ UNCHANGED << droppedComponents, currentSection, draggedComponent,
                          dragOffset, listeners >>
          /\ lastEvent.op = "generate" => codeOutput' = codeOutput ]_vars

\* C11 witness: a document was generated twice in a row from a store of two
\* components.
C11_Witness ==
    /\ lastEvent.op = "generate"
    /\ lastEvent.again
    /\ Len(Store) = 2
    /\ ~alerted
    /\ codeOutput # << >>

\* C12: every record's region is header, body or footer, and the three
\* region groups of the generator split the store: every record is in
\* exactly one group and the groups together hold as many records as the store.
C12_RegionsPartition ==
    LET group(section) == SectionComponents(Store, section)
        holds(section, comp) ==
            \E k \in 1..Len(group(section)) : group(section)[k] = comp
    IN  /\ \A i \in 1..Len(Store) :
              /\ Store[i].section \in Sections
              /\ Cardinality({ section \in Sections : holds(section, Store[i]) }) = 1
        /\ Len(group("header")) + Len(group("body")) + Len(group("footer")) = Len(Store)

\* C12 witness: a document was generated from a store holding a body
\* component and a footer component.
C12_Witness ==
    /\ lastEvent.op = "generate"
    /\ codeOutput # << >>
    /\ Len(Store) = 2
    /\ Store[1].section = "body"
    /\ Store[2].section = "footer"

\* C13: the region groups keep the order of placement.  A new component
\* goes to the end of the group of the active region; a pointer-move leaves
\* the members of every group and their order as they were, and with them
\* the document that would be generated; a delete takes the records with
\* the deleted id out of every group and keeps the others in order; and
\* the markup of a group lists the templates of its members in that order.
Group(store, section) == SelectSeq(store, LAMBDA comp : comp.section = section)
Unplaced(comp) == [id |-> comp.id, type |-> comp.type, content |-> comp.content]
Members(store, section) ==
    [k \in 1..Len(Group(store, section)) |-> Unplaced(Group(store, section)[k])]
C13_GroupOrderKept ==
    [][ /\ (lastEvent'.op \in {"drop", "select"} /\ Len(Store') = Len(Store) + 1) =>
              \A section \in Sections :
                 Members(Store', section) =
                    IF section = currentSection
                    THEN Append(Members(Store, section), Unplaced(Store'[Len(Store')]))
                    ELSE Members(Store, section)
        /\ lastEvent'.op = "move" =>
              \A section \in Sections :
                 /\ Members(Store', section) = Members(Store, section)
                 /\ SectionMarkup(Store', section) = SectionMarkup(Store, section)
        /\ lastEvent'.op = "delete" =>
              \E componentId \in 0..MaxClock :
                 \A section \in Sections :
                    Members(Store', section) =
                       SelectSeq(Members(Store, section),
                                 LAMBDA comp : comp.id # componentId)
        /\ \A section \in Sections :
              (Store' # Store /\ Members(Store', section) # << >>) =>
                 SelectSeq(SectionMarkup(Store', section),
                           LAMBDA fragment : fragment # JoinSeparator)
                    = [k \in 1..Len(Group(Store', section)) |->
                          generateHTMLForComponent(Group(Store', section)[k])[1]] ]_vars

\* C13 witness: of three components the first one, a member of the same
\* group as the second one and of another type, was moved to (1050, 720).
C13_Witness ==
    /\ lastEvent.op = "move"
    /\ Len(Store) = 3
    /\ Dragging
    /\ listeners[1].id = Store[1].id
    /\ Store[1].position = [x |-> 1050, y |-> 720]
    /\ Store[2].position # [x |-> 1050, y |-> 720]
    /\ Store[1].section = Store[2].section
    /\ Store[1].type # Store[2].type

\* C14: the reposition session is Idle or Dragging on one component.  A
\* press on a placed component while Idle makes it Dragging on that
\* component, a release makes it Idle, and a move, drop, selection, delete,
\* region change, generation or any other event leaves it as it was.
Idle == draggedComponent = << >> /\ listeners = << >>
DraggingOn(id) ==
    /\ draggedComponent = <<[id |-> id]>>
    /\ listeners # << >>
    /\ \A k \in 1..Len(listeners) : listeners[k].id = id
C14_SessionMachine ==
    [][ /\ Idle \/ \E id \in 0..MaxClock : DraggingOn(id)
        /\ (lastEvent'.op = "press" /\ Idle) =>
              \E id \in 0..MaxClock : HasId(Store, id) /\ DraggingOn(id)'
        /\ lastEvent'.op = "release" => Idle'
        /\ lastEvent'.op \notin {"press", "release"} =>
              UNCHANGED << draggedComponent, listeners >> ]_vars

\* C14 witness: a session on the second of two components, which it moved
\* while the first one stayed where it was dropped, is Idle again after the
\* release.
C14_Witness ==
    /\ lastEvent.op = "release"
    /\ Idle
    /\ Len(Store) = 2
    /\ Store[1].position = [x |-> 250, y |-> 175]
    /\ Store[2].position = [x |-> 1050, y |-> 720]

\* C15: at most one reposition session is active: once a press on another
\* component has been processed, a pointer-move changes the position of no
\* component but the one pressed last.
C15_OneSessionAtATime ==
    [][ (lastEvent'.op = "move" /\ draggedComponent # << >>) =>
          \A i \in 1..Len(Store) :
             Store[i].id # draggedComponent[1].id =>
                Store'[i].position = Store[i].position ]_vars

\* C16: a pointer-move of a session whose component is no longer in the
\* store, and a delete of an id that is not in the store, leave the store
\* exactly as it was: nothing is changed and no record is created.
StaleSession ==
    /\ Dragging
    /\ \A k \in 1..Len(listeners) : ~HasId(Store, listeners[k].id)
C16_StaleIdIsNoOp ==
    [][ /\ (lastEvent'.op = "move" /\ StaleSession) => Store' = Store
        /\ (lastEvent'.op = "delete"
              /\ \E componentId \in 0..MaxClock :
                    ~HasId(Store, componentId) /\ HandleDeleteComponent(componentId))
             => Store' = Store ]_vars

\* C16 witness: the pointer moved in a session whose component had been
\* deleted, while another component was in the store.
C16_Witness ==
    /\ lastEvent.op = "move"
    /\ StaleSession
    /\ Len(Store) = 1

\* C17: the type of every record of the store is one of the catalog types
\* of the region recorded on it, whether a drop or a selection created it.
CatalogTypes(section) ==
    { getAvailableComponents(section)[k].type :
         k \in 1..Len(getAvailableComponents(section)) }
C17_TypeInCatalogOfRegion ==
    \A i \in 1..Len(Store) : Store[i].type \in CatalogTypes(Store[i].section)

\* C18: a drop of a button or logo payload while no reposition session is
\* active appends exactly one record: its region is the active region, its
\* type and label are the payload's, and its position is
\* pointer - canvasOrigin - (50, 25) with x clamped to [0, canvasWidth - 100]
\* and y to [0, canvasHeight - 50].
PayloadFields(text) ==
    IF text = ButtonPayload THEN [type |-> "button", content |-> "Button"]
    ELSE [type |-> "logo", content |-> "Logo"]
C18_DropAppendsOne ==
    [][ \A p \in DropPointers, text \in {ButtonPayload, LogoPayload} :
          (HandleDrop(p, text) /\ draggedComponent = << >>) =>
             /\ Len(Store') = Len(Store) + 1
             /\ SubSeq(Store', 1, Len(Store)) = Store
             /\ LastComponent'.section = currentSection
             /\ LastComponent'.type = PayloadFields(text).type
             /\ LastComponent'.content = PayloadFields(text).content
             /\ LastComponent'.position =
                   [x |-> ClampTo(p.x - canvasRect.left - 50, canvasRect.width - 100),
                    y |-> ClampTo(p.y - canvasRect.top - 25, canvasRect.height - 50)] ]_vars

\* C18 witness: a logo dropped at (100, 60) as the second component, into
\* the footer and on the canvas whose origin is (40, 30), lies at (10, 5).
C18_Witness ==
    /\ lastEvent.op = "drop"
    /\ Len(Store) = 2
    /\ lastEvent.n = 1
    /\ canvasRect.left = 40
    /\ LastComponent.section = "footer"
    /\ LastComponent.type = "logo"
    /\ LastComponent.position = [x |-> 10, y |-> 5]

\* C19: a press on the delete control of a component starts no reposition
\* session and changes no position, and activating the control (a delete
\* with the component's id) leaves no record with that id in the store.
C19_DeleteControlStartsNoSession ==
    [][ \A i \in 1..Len(Store) :
          /\ (PressDeleteButton(i) /\ Idle) => (Idle' /\ Store' = Store)
          /\ HandleDeleteComponent(Store[i].id) => ~HasId(Store', Store[i].id) ]_vars

\* C19 witness: the delete control of one of two components was pressed
\* and no session is open.
C19_Witness ==
    /\ lastEvent.op = "pressdelete"
    /\ Idle
    /\ Len(Store) = 2

\* C20: the generator maps every type of the three catalogs to one fixed
\* piece of markup of its own, which is not the generic wrapper and does
\* not depend on the label; components of equal type and label get equal
\* markup; and every other type, the missing one included, gets the
\* wrapper <div>label</div>.  The generated document carries that markup.
AllCatalogTypes == UNION { CatalogTypes(section) : section \in Sections }
Wrapper(label) == <<"<div>", label, "</div>">>
C20_TemplateMappingTotal ==
    \A i \in 1..Len(Store) :
       LET html == generateHTMLForComponent(Store[i])
       IN  /\ Store[i].type \in AllCatalogTypes =>
                 /\ Len(html) = 1
                 /\ \A label \in TemplateContents : html # Wrapper(label)
                 /\ \A j \in 1..Len(Store) :
                       /\ Store[j].type = Store[i].type =>
                             generateHTMLForComponent(Store[j]) = html
                       /\ (Store[j].type \in AllCatalogTypes
                              /\ Store[j].type # Store[i].type) =>
                             generateHTMLForComponent(Store[j]) # html
           /\ Store[i].type \notin AllCatalogTypes => html = Wrapper(Store[i].content)
           /\ \A j \in 1..Len(Store) :
                 (Store[j].type = Store[i].type /\ Store[j].content = Store[i].content) =>
                    generateHTMLForComponent(Store[j]) = html
           /\ (lastEvent.op = "generate" /\ i = 1 /\ codeOutput # << >>) =>
                 SubSeq(codeOutput[1], 2, 1 + Len(html)) = html

\* C20 witness: a document was generated from a newsletter component and a
\* component without a type.
C20_Witness ==
    /\ lastEvent.op = "generate"
    /\ codeOutput # << >>
    /\ Len(Store) = 2
    /\ Store[1].type = "newsletter"
    /\ Store[2].type = Undefined

\* C21: the active region starts as header and is always header, body or
\* footer; a step that changes it is a click on a region button or a clear,
\* and a drop, selection, press, move, release, delete or generation leaves
\* it as it was.
C21_ActiveRegionFrame ==
    /\ currentSection = "header"
    /\ [][ /\ currentSection' \in Sections
           /\ lastEvent'.op \in {"drop", "select", "press", "move", "release",
                                 "delete", "generate"} =>
                 currentSection' = currentSection
           /\ currentSection' # currentSection =>
                 \/ \E section \in Sections : SetCurrentSection(section)
                 \/ HandleClearCanvas ]_vars

\* C21 witness: a session on a component of the body was released, and the
\* body is still the active region.
C21_Witness ==
    /\ lastEvent.op = "release"
    /\ Idle
    /\ currentSection = "body"
    /\ Len(Store) = 2
    /\ Store[2].section = "body"
    /\ Store[2].position = [x |-> 1050, y |-> 720]

\* C22: the id, type, label and region of a record never change: a
\* pointer-move changes nothing but the position of the records whose id
\* is the id of a component under reposition, every other record staying
\* as it was, and a click on a region button changes no record.
UnderReposition(id) == \E k \in 1..Len(listeners) : listeners[k].id = id
C22_OnlyDraggedPositionChanges ==
    [][ /\ lastEvent'.op = "move" =>
              /\ Len(Store') = Len(Store)
              /\ \A i \in 1..Len(Store) :
                    /\ Unplaced(Store'[i]) = Unplaced(Store[i])
                    /\ Store'[i].section = Store[i].section
                    /\ ~UnderReposition(Store[i].id) => Store'[i] = Store[i]
        /\ (currentSection' # currentSection /\ lastEvent'.op # "clear") =>
              Store' = Store ]_vars

\* C22 witness: the second of two components, placed in the header, was
\* moved while the body was the active region; the first one is where it
\* was dropped.
C22_Witness ==
    /\ lastEvent.op = "move"
    /\ currentSection = "body"
    /\ Len(Store) = 2
    /\ Store[2].section = "header"
    /\ UnderReposition(Store[2].id)
    /\ ~UnderReposition(Store[1].id)
    /\ Store[2].position = [x |-> 1050, y |-> 720]
    /\ Store[1].position = [x |-> 250, y |-> 175]

\* C23: a delete of an id that is in the store removes exactly one record:
\* the store is one record shorter, and it is the old store with one record
\* taken out, the others unchanged and in their order.
WithoutIndex(store, i) == SubSeq(store, 1, i - 1) \o SubSeq(store, i + 1, Len(store))
C23_DeleteRemovesExactlyOne ==
    [][ \A componentId \in 0..MaxClock :
          (HandleDeleteComponent(componentId) /\ HasId(Store, componentId)) =>
             /\ Len(Store') = Len(Store) - 1
             /\ \E i \in 1..Len(Store) :
                   Store[i].id = componentId /\ Store' = WithoutIndex(Store, i) ]_vars

\* C24: a release ends the session and changes no position, so the
\* dragged component stays where the last pointer-move of the session put
\* it (or where it was pressed), and a pointer-move that arrives while no
\* session is open changes no position.
C24_ReleaseKeepsPositions ==
    [][ /\ lastEvent'.op = "release" => (Store' = Store /\ Idle')
        /\ (lastEvent'.op = "move" /\ draggedComponent = << >>) => Store' = Store ]_vars

\* C24 witness: the pointer moved while no session was open, and the
\* component an earlier session had moved to (1050, 720) is still there.
C24_Witness ==
    /\ lastEvent.op = "move"
    /\ Idle
    /\ canvasRect = InitialCanvasRect
    /\ \E i \in 1..Len(Store) : Store[i].position = [x |-> 1050, y |-> 720]

\* C25: a generated document is the skeleton with its three insertion
\* points in the order header, main, footer.  The insertion point of a
\* region without components holds the empty sentinel; that of a region
\* with n components holds their n templates in store order with the
\* newline-and-indentation separator between neighbours, and not the sentinel.
Skeleton ==
    << "<!DOCTYPE html>...<body> <header>", "</header> <main>",
       "</main> <footer>", "</footer> </body> </html>" >>
PlaceOf(doc, fragment) == CHOOSE k \in 1..Len(doc) : doc[k] = fragment
Slot(doc, n) ==
    SubSeq(doc, PlaceOf(doc, Skeleton[n]) + 1, PlaceOf(doc, Skeleton[n + 1]) - 1)
RegionOfSlot == << "header", "body", "footer" >>
C25_DocumentSkeleton ==
    (lastEvent.op = "generate" /\ ~alerted) =>
        /\ Len(codeOutput) = 1
        /\ \A n \in 1..4 :
              Cardinality({ k \in 1..Len(codeOutput[1]) : codeOutput[1][k] = Skeleton[n] }) = 1
        /\ PlaceOf(codeOutput[1], Skeleton[1]) = 1
        /\ PlaceOf(codeOutput[1], Skeleton[4]) = Len(codeOutput[1])
        /\ \A n \in 1..3 :
              LET members == Group(Store, RegionOfSlot[n])
                  slot == Slot(codeOutput[1], n)
              IN  /\ PlaceOf(codeOutput[1], Skeleton[n]) < PlaceOf(codeOutput[1], Skeleton[n + 1])
                  /\ members = << >> => slot = <<"    ">>
                  /\ members # << >> =>
                        /\ slot # <<"    ">>
                        /\ Len(slot) = 2 * Len(members) - 1
                        /\ \A k \in 1..Len(slot) :
                              slot[k] = IF k % 2 = 0 THEN "\n    "
                                        ELSE generateHTMLForComponent(members[(k + 1) \div 2])[1]

\* C25 witness: a document was generated from two components of the body,
\* the header and the footer being empty.
C25_Witness ==
    /\ lastEvent.op = "generate"
    /\ ~alerted
    /\ Len(Store) = 2
    /\ \A i \in 1..2 : Store[i].section = "body"

\* C26: a drop and a pointer-move place a component by the rectangle the
\* canvas has when the event arrives: after a drop at (300, 200) that
\* appended, the new position is the one that pointer has on the present
\* rectangle, and after a pointer-move to (300, 200) every component under
\* reposition is where the present rectangle puts that pointer, whatever
\* the rectangle was at the press or at an earlier move of the session.
Bounded(v, hi) == IF v > hi THEN (IF hi < 0 THEN 0 ELSE hi) ELSE IF v < 0 THEN 0 ELSE v
C26_GeometryReadAtEvent ==
    [][ /\ (lastEvent'.op = "drop" /\ Len(Store') = Len(Store) + 1) =>
              LastComponent'.position =
                 [x |-> Bounded(300 - canvasRect.left - 50, canvasRect.width - 100),
                  y |-> Bounded(200 - canvasRect.top - 25, canvasRect.height - 50)]
        /\ lastEvent'.op = "move" =>
              \A i \in 1..Len(Store) :
                 UnderReposition(Store[i].id) =>
                    Store'[i].position =
                       [x |-> Bounded(300 - canvasRect.left, canvasRect.width - 150),
                        y |-> Bounded(200 - canvasRect.top, canvasRect.height - 80)] ]_vars

\* C26 witness: on the narrow canvas a pointer-move put the pressed
\* component at (0, 0), next to a component dropped at (250, 175) while the
\* canvas was wide.
C26_Witness ==
    /\ lastEvent.op = "move"
    /\ canvasRect.width = 120
    /\ Len(Store) = 2
    /\ \E i, j \in 1..2 :
          /\ UnderReposition(Store[i].id)
          /\ Store[i].position = [x |-> 0, y |-> 0]
          /\ Store[j].position = [x |-> 250, y |-> 175]

\* C27: no two components of the same region have the same position
\* (the store being built by selections and deletes only).
C27_NoOverlapInRegion ==
    \A i, j \in 1..Len(Store) :
       (i # j /\ Store[i].section = Store[j].section) =>
          Store[i].position # Store[j].position

\* C27, amended: as long as the components of the active region form a
\* stack without gaps (the k-th of them at baseline + 80 * (k - 1), which
\* is so when none but the last of them was deleted), a selection puts
\* the new component on none of them and the stack is again without gaps.
Baseline(section) ==
    CASE section = "header" -> 20 [] section = "body" -> 200 [] section = "footer" -> 600
GapFree(store, section) ==
    \A k \in 1..Len(Group(store, section)) :
       Group(store, section)[k].position =
          [x |-> 50, y |-> Baseline(section) + 80 * (k - 1)]
C27_GapFreeStackGrows ==
    [][ (lastEvent'.op = "select" /\ GapFree(Store, currentSection)) =>
          /\ \A i \in 1..Len(Store) :
                Store[i].section = currentSection =>
                   Store[i].position # LastComponent'.position
          /\ GapFree(Store', currentSection) ]_vars

\* C27 witness: a second component was selected into the footer and lies
\* below the first one.
C27_Witness ==
    /\ lastEvent.op = "select"
    /\ Len(Store) = 2
    /\ Store[1].section = "footer" /\ Store[1].position = [x |-> 50, y |-> 600]
    /\ Store[2].section = "footer" /\ Store[2].position = [x |-> 50, y |-> 680]

\* C28: the displayed output changes only when a generation request on a
\* non-empty store replaces it by the document of that store, and when a
\* clear empties it; a drop, selection, press, move, release, delete or
\* region change leaves it as it is, so it keeps the document of the store
\* as it was at the last generation.
C28_OutputWrittenByGenerateOnly ==
    [][ /\ codeOutput' # codeOutput =>
              \/ /\ lastEvent'.op = "generate"
                 /\ Store # << >>
                 /\ Store' = Store
                 /\ codeOutput' = <<fullCode(Store)>>
              \/ /\ lastEvent'.op = "clear"
                 /\ codeOutput' = << >>
        /\ lastEvent'.op = "clear" => codeOutput' = << >>
        /\ lastEvent'.op \in {"drop", "select", "press", "move", "release",
                              "delete", "other"} =>
              codeOutput' = codeOutput ]_vars

\* C28 witness: the last component was deleted and the output still shows
\* the document generated while it was in the store.
C28_Witness ==
    /\ lastEvent.op = "delete"
    /\ Store = << >>
    /\ lastEvent.n = 1
    /\ codeOutput # << >>
    /\ codeOutput # <<fullCode(Store)>>

\* C29: a clear that arrives during a reposition session empties the store
\* and leaves the session open; every pointer-move and the release of a
\* session whose store is empty leave it empty, and the release makes the
\* session Idle.
C29_ClearDuringSession ==
    [][ /\ (Dragging /\ lastEvent'.op = "clear") =>
              /\ Store' = << >>
              /\ UNCHANGED << draggedComponent, listeners >>
        /\ (Dragging /\ Store = << >> /\ lastEvent'.op = "move") => Store' = << >>
        /\ (Dragging /\ Store = << >> /\ lastEvent'.op = "release") =>
              (Store' = << >> /\ Idle') ]_vars

\* C29 witness: a store of two components was cleared while a session was open.
C29_Witness ==
    /\ lastEvent.op = "clear"
    /\ lastEvent.n = 2
    /\ Dragging
    /\ draggedComponent # << >>
    /\ Store = << >>

\* C30: stepping forwards takes the active region from header to body
\* and from body to footer and leaves footer; stepping backwards takes it
\* from footer to body and from body to header and leaves header; and a
\* step backwards right after a step forwards ends in the region the step
\* forwards started from, unless that was footer (then it ends in body).
C30_NavigationSaturates ==
    [][ /\ lastEvent'.op = "next" =>
              currentSection' =
                 CASE currentSection = "header" -> "body"
                   [] currentSection = "body" -> "footer"
                   [] currentSection = "footer" -> "footer"
        /\ lastEvent'.op = "prev" =>
              currentSection' =
                 CASE currentSection = "footer" -> "body"
                   [] currentSection = "body" -> "header"
                   [] currentSection = "header" -> "header"
        /\ (lastEvent.op = "next" /\ lastEvent'.op = "prev") =>
              currentSection' =
                 IF lastEvent.section = "footer" THEN "body" ELSE lastEvent.section
        /\ lastEvent'.op \in {"next", "prev"} => Store' = Store ]_vars

\* C30 witness: a step backwards that found footer the active region ended
\* in body, with two components in the store.
C30_Witness ==
    /\ lastEvent.op = "prev"
    /\ lastEvent.section = "footer"
    /\ currentSection = "body"
    /\ Len(Store) = 2

\* ------------------------------------------------------------------ C31
\* The JSON body has a member of this name.
HasMember(body, key) == \E i \in 1..Len(body) : body[i].key = key

\* The call of the text-generation service and the decoding of its answer
\* both succeeded for request r; one of the two threw.
Succeeded(r) == requests[r].fetched = "resolved" /\ requests[r].decoded = "resolved"
Threw(r) == requests[r].fetched = "rejected" \/ requests[r].decoded = "rejected"

\* C31: every POST /generate-code request whose handler has finished with
\* the text-generation service got exactly one response: status 200 with a
\* body holding the member code when the call and the decoding of its
\* answer succeeded, and status 500 with a body holding the member error
\* when either of them threw.
C31_OneResponsePerOutcome ==
    \A r \in Requests :
        requests[r].at = "done" =>
            /\ Len(requests[r].sent) = 1
            /\ Succeeded(r) => /\ requests[r].sent[1].status = 200
                               /\ HasMember(requests[r].sent[1].body, "code")
            /\ Threw(r) => /\ requests[r].sent[1].status = 500
                           /\ HasMember(requests[r].sent[1].body, "error")

\* A request that arrived after another request had been answered with an
\* error has been answered with the generated code.
C31_Witness ==
    \E r \in Requests :
        /\ requests[r].afterFailure
        /\ requests[r].at = "done"
        /\ Succeeded(r)
        /\ requests[r].sent = << CodeResponse("<h1>Title</h1>") >>

====
